---- MODULE Spec2Model ----
(***************************************************************************)
(* Model of poker_tracker.py: a Streamlit page script over one CSV file.   *)
(* The file is a sequence of rows, a row a sequence of cell texts.  Cells  *)
(* of a loaded DataFrame are typed values; to_csv formats them to text and *)
(* read_csv parses text back with per-column type inference, so a value    *)
(* written and read again need not be the value that was written.          *)
(* profit_loss is counted in half dollars (number_input step=0.5).         *)
(***************************************************************************)
EXTENDS Integers, Sequences, FiniteSets, TLC

VARIABLES
  file,    \* DATA_FILE: whether it exists, and its rows of cell texts
  clock,   \* the second datetime.now() returns
  last,    \* what the last run of the script showed
  logged,  \* the hand_data of every save_hand call that returned, in order
  pc,      \* per session, where it is in save_hand: idle, load, open, write
  snap,    \* per session, the content save_hand built and is about to write
  hand,    \* per session, the hand_data it is saving
  faults   \* the number of I/O calls that have raised

vars == <<file, clock, last, logged, pc, snap, hand, faults>>

\* ------------------------------------------------------------------ bounds
MaxHands == 2
MaxClock == 1
MaxNum == 60
MaxExtRows == 2
MaxFaults == 1

\* --------------------------------------------------------------- constants
DATA_COLUMNS ==
  <<"timestamp", "position", "hole_cards", "action", "result", "profit_loss", "notes">>

Positions == {"UTG", "UTG+1", "MP", "CO", "BTN", "SB", "BB"}
Actions == {"Fold", "Call", "Raise", "All-in"}
Results == {"Won", "Lost", "Chopped"}

\* pandas' default na_values of read_csv (keep_default_na=True)
NAValues ==
  {"", "#N/A", "#N/A N/A", "#NA", "-1.#IND", "-1.#QNAN", "-NaN", "-nan", "1.#IND",
   "1.#QNAN", "<NA>", "N/A", "NA", "NULL", "NaN", "None", "n/a", "nan", "null"}

\* ------------------------------------------------------------- cell values
Str(t) == [k |-> "str", t |-> t]
IntV(n) == [k |-> "int", n |-> n]
FloatV(h) == [k |-> "float", h |-> h]
NaN == [k |-> "nan"]

Max(a, b) == IF a >= b THEN a ELSE b
Abs(n) == IF n < 0 THEN -n ELSE n
Range(s) == {s[i] : i \in DOMAIN s}

DigitText == <<"0", "1", "2", "3", "4", "5", "6", "7", "8", "9">>

RECURSIVE Dec(_)
Dec(n) == IF n < 10 THEN DigitText[n + 1] ELSE Dec(n \div 10) \o DigitText[(n % 10) + 1]

\* str(int)
FmtInt(n) == IF n < 0 THEN "-" \o Dec(-n) ELSE Dec(n)

\* repr(float) of a multiple of 0.5, h half dollars
FmtFloat(h) ==
  (IF h < 0 THEN "-" ELSE "") \o Dec(Abs(h) \div 2) \o (IF Abs(h) % 2 = 0 THEN ".0" ELSE ".5")

\* datetime.now().strftime("%Y-%m-%d %H:%M:%S") at second c of the run
TimestampText(c) == "2024-01-01 10:00:" \o (IF c < 10 THEN "0" ELSE "") \o Dec(c)

\* DataFrame.to_csv of one cell (na_rep='')
FmtCell(v) ==
  CASE v.k = "str" -> v.t
    [] v.k = "int" -> FmtInt(v.n)
    [] v.k = "float" -> FmtFloat(v.h)
    [] v.k = "nan" -> ""

\* the texts the C parser converts to int64: decimal digits, leading zeros allowed
IntSpellings(n) == {FmtInt(n)} \cup (IF n >= 0 THEN {"0" \o Dec(n)} ELSE {"-0" \o Dec(-n)})
IntTexts == UNION {IntSpellings(n) : n \in -MaxNum..MaxNum}
IntOfText == [t \in IntTexts |-> CHOOSE n \in -MaxNum..MaxNum : t \in IntSpellings(n)]

\* the texts the C parser converts to float64 and not to int64
FloatTexts == {FmtFloat(h) : h \in -(2 * MaxNum)..(2 * MaxNum)}
FloatOfText == [t \in FloatTexts |-> CHOOSE h \in -(2 * MaxNum)..(2 * MaxNum) : FmtFloat(h) = t]

\* ------------------------------------------------------------- DataFrames
\* A DataFrame: column names and rows of cell values (the RangeIndex is not kept).
Frame(cols, rows) == [columns |-> cols, rows |-> rows]

\* pd.DataFrame()
EmptyFrame == Frame(<<>>, <<>>)

\* DataFrame.empty
IsEmptyFrame(df) == df.columns = <<>> \/ df.rows = <<>>

\* df[name] as the sequence of its cells
ColIndex(df, name) == CHOOSE j \in DOMAIN df.columns : df.columns[j] = name
HasColumn(df, name) == \E j \in DOMAIN df.columns : df.columns[j] = name
Column(df, name) == [i \in DOMAIN df.rows |-> df.rows[i][ColIndex(df, name)]]

\* read_csv's dtype of one column from its texts: int64 when every cell is an
\* integer, float64 when every non-missing cell is a number, object otherwise
ColKind(texts) ==
  LET present == {t \in Range(texts) : t \notin NAValues}
  IN IF texts = <<>> THEN "object"
     ELSE IF present \subseteq IntTexts /\ present = Range(texts) THEN "int64"
     ELSE IF present \subseteq (IntTexts \cup FloatTexts) THEN "float64"
     ELSE "object"

ParseCell(kind, t) ==
  IF t \in NAValues THEN NaN
  ELSE CASE kind = "int64" -> IntV(IntOfText[t])
         [] kind = "float64" ->
              FloatV(IF t \in IntTexts THEN 2 * IntOfText[t] ELSE FloatOfText[t])
         [] OTHER -> Str(t)

\* read_csv names an empty header cell after its position
UnnamedText == <<"Unnamed: 0", "Unnamed: 1", "Unnamed: 2", "Unnamed: 3",
                 "Unnamed: 4", "Unnamed: 5", "Unnamed: 6", "Unnamed: 7", "Unnamed: 8">>
HeaderNames(header) ==
  [j \in DOMAIN header |-> IF header[j] = "" THEN UnnamedText[j] ELSE header[j]]

IsBlankLine(r) == r = <<"">>
NotBlankLine(r) == ~IsBlankLine(r)

\* the frame read_csv builds from the header, the data rows, the number of
\* leading index fields and the dtype of each column
ParsedFrame(header, data, lead, kind) ==
  Frame(HeaderNames(header),
        [i \in DOMAIN data |->
          [j \in DOMAIN header |->
            ParseCell(kind[j], IF lead + j <= Len(data[i]) THEN data[i][lead + j] ELSE "")]])

\* the dtype of each column of the table
ColumnKinds(header, data, lead) ==
  [j \in DOMAIN header |->
    ColKind([i \in DOMAIN data |-> IF lead + j <= Len(data[i]) THEN data[i][lead + j] ELSE ""])]

\* read_csv raising on every row that has not the header's number of fields
ParseTableStrict(header, data, width) ==
  IF \E i \in DOMAIN data : Len(data[i]) # Len(header)
  THEN [err |-> "ParserError", df |-> EmptyFrame]
  ELSE [err |-> "ok",
        df |-> ParsedFrame(header, data, 0, ColumnKinds(header, data, 0))]

ParseTable(header, data, width) ==
  IF \E i \in DOMAIN data : Len(data[i]) > width
  THEN [err |-> "ParserError", df |-> EmptyFrame]
  ELSE [err |-> "ok",
        df |-> ParsedFrame(header, data, width - Len(header),
                           ColumnKinds(header, data, width - Len(header)))]

\* pd.read_csv(DATA_FILE) on the rows of the file.  Blank lines are skipped; an
\* empty file raises EmptyDataError.  The table is as wide as the wider of the
\* header and the first data row; a later row with more fields raises
\* ParserError, a row with fewer is padded with NaN.  Fields beyond the header's
\* width are taken from the front of each row as the index.
ReadRows(rows) ==
  IF rows = <<>> THEN [err |-> "EmptyDataError", df |-> EmptyFrame]
  ELSE ParseTable(rows[1], Tail(rows),
                  IF Len(rows) = 1 THEN Len(rows[1]) ELSE Max(Len(rows[1]), Len(rows[2])))

ReadCsv(raw) == ReadRows(SelectSeq(raw, NotBlankLine))

\* df.to_csv(index=False) as rows of text: the header, then one row per record
ToCsv(df) ==
  <<df.columns>> \o [i \in DOMAIN df.rows |-> [j \in DOMAIN df.columns |-> FmtCell(df.rows[i][j])]]

\* pd.DataFrame([hand_data])
NewHandFrame(h) ==
  Frame(DATA_COLUMNS,
        <<  <<Str(h.timestamp), Str(h.position), Str(h.hole_cards), Str(h.action),
              Str(h.result), FloatV(h.profit_loss), Str(h.notes)>>  >>)

\* pd.concat([a, b], ignore_index=True): the union of the columns in order of
\* appearance, a's rows then b's, NaN where a frame lacks a column.  A column
\* that is numeric in both frames and not int64 in both becomes float64.
IsNumericCol(cells) == cells # <<>> /\ \A i \in DOMAIN cells : cells[i].k \in {"int", "float", "nan"}
IsIntCol(cells) == cells # <<>> /\ \A i \in DOMAIN cells : cells[i].k = "int"
ToFloat(v) == IF v.k = "int" THEN FloatV(2 * v.n) ELSE v

CellOf(df, i, c) == IF HasColumn(df, c) THEN df.rows[i][ColIndex(df, c)] ELSE NaN
ColOf(df, c) == [i \in DOMAIN df.rows |-> CellOf(df, i, c)]

Upcast(a, b, c) ==
  /\ IsNumericCol(ColOf(a, c)) /\ IsNumericCol(ColOf(b, c))
  /\ ~(IsIntCol(ColOf(a, c)) /\ IsIntCol(ColOf(b, c)))

Reindexed(df, cols, up) ==
  [i \in DOMAIN df.rows |->
    [j \in DOMAIN cols |->
      IF up[j] THEN ToFloat(CellOf(df, i, cols[j])) ELSE CellOf(df, i, cols[j])]]

ConcatOn(a, b, cols, up) == Frame(cols, Reindexed(a, cols, up) \o Reindexed(b, cols, up))

ConcatCols(a, b, cols) == ConcatOn(a, b, cols, [j \in DOMAIN cols |-> Upcast(a, b, cols[j])])

Concat(a, b) == ConcatCols(a, b, a.columns \o SelectSeq(b.columns, LAMBDA c : ~HasColumn(a, c)))

\* ------------------------------------------------------------------ store
NoFile == [exists |-> FALSE, rows |-> <<>>]
FileOf(rows) == [exists |-> TRUE, rows |-> rows]

\* the rows of the file after its first row
DataRows(f) == IF f.rows = <<>> THEN <<>> ELSE Tail(f.rows)

\* init_data_file without the os.path.exists test
init_data_file_always(f) == FileOf(ToCsv(Frame(DATA_COLUMNS, <<>>)))

init_data_file(f) ==
  IF ~f.exists THEN FileOf(ToCsv(Frame(DATA_COLUMNS, <<>>))) ELSE f

load_hands(f) ==
  IF f.exists THEN ReadCsv(f.rows) ELSE [err |-> "ok", df |-> EmptyFrame]

\* the rows save_hand writes: load_hands, pd.DataFrame([hand_data]), pd.concat
NewContent(df, h) == ToCsv(Concat(df, NewHandFrame(h)))

\* save_hand when no I/O call fails: an exception of load_hands leaves the file
save_hand(f, h) ==
  LET r == load_hands(f)
  IN IF r.err # "ok" THEN [err |-> r.err, file |-> f]
     ELSE [err |-> "ok", file |-> FileOf(NewContent(r.df, h))]

\* ------------------------------------------------------------- aggregator
\* a number cell in half dollars; Series.sum() skips NaN
NumOf(v) == CASE v.k = "float" -> v.h [] v.k = "int" -> 2 * v.n [] v.k = "nan" -> 0

RECURSIVE SumCells(_)
SumCells(cells) == IF cells = <<>> THEN 0 ELSE NumOf(Head(cells)) + SumCells(Tail(cells))

RECURSIVE SumVals(_)
SumVals(entries) == IF entries = <<>> THEN 0 ELSE Head(entries).val + SumVals(Tail(entries))

\* Series.unique(): the distinct values in order of first appearance
RECURSIVE Unique(_)
Unique(cells) ==
  IF cells = <<>> THEN <<>>
  ELSE LET u == Unique(SubSeq(cells, 1, Len(cells) - 1))
           x == cells[Len(cells)]
       IN IF x \in Range(u) THEN u ELSE Append(u, x)

\* sort_values(ascending=False) of a short Series: descending, ties in their
\* given order (nargsort reverses, sorts stably, reverses)
RECURSIVE InsertDesc(_, _)
InsertDesc(sorted, e) ==
  IF sorted = <<>> THEN <<e>>
  ELSE IF Head(sorted).val >= e.val THEN <<Head(sorted)>> \o InsertDesc(Tail(sorted), e)
  ELSE <<e>> \o sorted

\* sort_values() with the default ascending=True
RECURSIVE SortAsc(_)
SortAsc(entries) ==
  IF entries = <<>> THEN <<>>
  ELSE LET rest == SortAsc(SubSeq(entries, 1, Len(entries) - 1))
           e == entries[Len(entries)]
           before == SelectSeq(rest, LAMBDA x : x.val <= e.val)
           after == SelectSeq(rest, LAMBDA x : x.val > e.val)
       IN before \o <<e>> \o after

RECURSIVE SortDesc(_)
SortDesc(entries) ==
  IF entries = <<>> THEN <<>>
  ELSE InsertDesc(SortDesc(SubSeq(entries, 1, Len(entries) - 1)), entries[Len(entries)])

\* the position labels in the order groupby sorts its keys (string order)
SortedPositions == <<"BB", "BTN", "CO", "MP", "SB", "UTG", "UTG+1">>

\* df.groupby('position')['profit_loss'].sum().sort_values(ascending=False):
\* one entry per position present (NaN keys are dropped), keys sorted, then by sum
position_stats(df) ==
  LET pos == ColIndex(df, "position")
      pl == ColIndex(df, "profit_loss")
      keys == SelectSeq(SortedPositions, LAMBDA k : \E i \in DOMAIN df.rows : df.rows[i][pos] = Str(k))
      group(k) == SelectSeq(df.rows, LAMBDA r : r[pos] = Str(k))
      sum(k) == SumCells([i \in DOMAIN group(k) |-> group(k)[i][pl]])
  IN SortDesc([i \in DOMAIN keys |-> [key |-> keys[i], val |-> sum(keys[i])]])

\* df['position'].value_counts(): one entry per distinct position (NaN is
\* dropped) in order of first appearance, then by count descending
position_counts(df) ==
  LET pos == ColIndex(df, "position")
      keys == SelectSeq(Unique(Column(df, "position")), LAMBDA v : v.k # "nan")
      count(v) == Len(SelectSeq(df.rows, LAMBDA r : r[pos] = v))
  IN SortDesc([i \in DOMAIN keys |-> [key |-> FmtCell(keys[i]), val |-> count(keys[i])]])

total_hands(df) == Len(df.rows)
total_profit(df) == SumCells(Column(df, "profit_loss"))
won_hands(df) ==
  Len(SelectSeq(df.rows, LAMBDA r : r[ColIndex(df, "result")] = Str("Won")))

\* df.tail(10)[['timestamp', 'position', 'hole_cards', 'result', 'profit_loss']]
RECENT_N == 10
recent(df) ==
  LET n == Len(df.rows)
      from == IF n > RECENT_N THEN n - RECENT_N + 1 ELSE 1
      keep == <<"timestamp", "position", "hole_cards", "result", "profit_loss">>
      tail == SubSeq(df.rows, from, n)
  IN [i \in DOMAIN tail |-> [j \in DOMAIN keep |-> tail[i][ColIndex(df, keep[j])]]]

\* the mask with | for &
filter_rows_or(df, filter_position, filter_result) ==
  SelectSeq(df.rows, LAMBDA r : \/ r[ColIndex(df, "position")] \in filter_position
                               \/ r[ColIndex(df, "result")] \in filter_result)

\* df[(df['position'].isin(filter_position)) & (df['result'].isin(filter_result))]
filter_rows(df, filter_position, filter_result) ==
  LET pos == ColIndex(df, "position")
      res == ColIndex(df, "result")
  IN SelectSeq(df.rows, LAMBDA r : r[pos] \in filter_position /\ r[res] \in filter_result)

\* ------------------------------------------------------------------ pages
NoHand == [timestamp |-> "", position |-> "", hole_cards |-> "", action |-> "",
           result |-> "", profit_loss |-> 0, notes |-> ""]

NoStats == [total_hands |-> 0, total_profit |-> 0, won_hands |-> 0,
            position_stats |-> <<>>, position_counts |-> <<>>, recent |-> <<>>]

\* what one run of the script showed: the page, the exception that ended it
\* ("ok" when none did), and the values the page computed
Shown(op, err) ==
  [op |-> op, err |-> err, hand |-> NoHand, df |-> EmptyFrame, fpos |-> {}, fres |-> {},
   filtered |-> <<>>, csv |-> <<>>, stats |-> NoStats]

\* the dict built from the form's widgets at second now
hand_data(form, now) ==
  [timestamp |-> TimestampText(now), position |-> form.position,
   hole_cards |-> form.hole_cards, action |-> form.action, result |-> form.result,
   profit_loss |-> form.profit_loss, notes |-> form.notes]

\* log_hand_page with the form submitted; save is save_hand's outcome [err, file]
log_hand_page(f, h, save) ==
  IF h.hole_cards = ""
  THEN [file |-> f, shown |-> [Shown("log_hand", "ValidationError") EXCEPT !.hand = h]]
  ELSE [file |-> save.file, shown |-> [Shown("log_hand", save.err) EXCEPT !.hand = h]]

\* the options of the two multiselects: df[col].unique()
FilterOptions(df, col) == Range(Unique(Column(df, col)))

\* hand_history_page with the export written to DATA_FILE: to_csv(DATA_FILE, index=False)
hand_history_page_export_to_file(f, filter_position, filter_result) ==
  LET r == load_hands(f)
  IN IF r.err # "ok" \/ IsEmptyFrame(r.df) THEN [file |-> f, shown |-> Shown("hand_history", r.err)]
     ELSE LET filtered == filter_rows(r.df, filter_position, filter_result)
          IN [file |-> FileOf(ToCsv(Frame(r.df.columns, filtered))),
              shown |-> [Shown("hand_history", "ok") EXCEPT
                           !.df = r.df, !.fpos = filter_position, !.fres = filter_result,
                           !.filtered = filtered,
                           !.csv = ToCsv(Frame(r.df.columns, filtered))]]

\* hand_history_page with the multiselects at filter_position and filter_result
hand_history_page(f, filter_position, filter_result) ==
  LET r == load_hands(f)
  IN IF r.err # "ok" THEN [file |-> f, shown |-> Shown("hand_history", r.err)]
     ELSE IF IsEmptyFrame(r.df)
     THEN [file |-> f, shown |-> [Shown("hand_history", "ok") EXCEPT !.df = r.df]]
     ELSE IF ~HasColumn(r.df, "position") \/ ~HasColumn(r.df, "result")
     THEN [file |-> f, shown |-> [Shown("hand_history", "KeyError") EXCEPT !.df = r.df]]
     ELSE LET filtered == filter_rows(r.df, filter_position, filter_result)
          IN [file |-> f,
              shown |-> [Shown("hand_history", "ok") EXCEPT
                           !.df = r.df, !.fpos = filter_position, !.fres = filter_result,
                           !.filtered = filtered,
                           !.csv = ToCsv(Frame(r.df.columns, filtered))]]

stats_page(f) ==
  LET r == load_hands(f)
  IN IF r.err # "ok" THEN [file |-> f, shown |-> Shown("stats", r.err)]
     ELSE IF IsEmptyFrame(r.df)
     THEN [file |-> f, shown |-> [Shown("stats", "ok") EXCEPT !.df = r.df]]
     ELSE IF \E c \in {"position", "result", "profit_loss", "timestamp", "hole_cards"} :
               ~HasColumn(r.df, c)
     THEN [file |-> f, shown |-> [Shown("stats", "KeyError") EXCEPT !.df = r.df]]
     ELSE [file |-> f,
           shown |-> [Shown("stats", "ok") EXCEPT
                        !.df = r.df,
                        !.stats = [total_hands |-> total_hands(r.df),
                                   total_profit |-> total_profit(r.df),
                                   won_hands |-> won_hands(r.df),
                                   position_stats |-> position_stats(r.df),
                                   position_counts |-> position_counts(r.df),
                                   recent |-> recent(r.df)]]]

\* ------------------------------------------------------------------ inputs
Form(p, hc, a, r, pl, n) ==
  [position |-> p, hole_cards |-> hc, action |-> a, result |-> r, profit_loss |-> pl, notes |-> n]

\* the form submissions tried: the two of the end-to-end scenario, one without
\* hole cards, and one with "n/a" typed as the hole cards and a number as the notes
InputForms ==
  {Form("BTN", "AhKd", "Raise", "Won", 51, ""),
   Form("BB", "7c2d", "Fold", "Lost", -2, "blind"),
   Form("SB", "", "Call", "Lost", 0, ""),
   Form("BB", "n/a", "All-in", "Won", 51, "07")}

Writers == {1, 2}

\* ------------------------------------------------------------ state machine
Init ==
  /\ file = NoFile
  /\ clock = 0
  /\ last = Shown("start", "ok")
  /\ logged = <<>>
  /\ pc = [w \in Writers |-> "idle"]
  /\ snap = [w \in Writers |-> <<>>]
  /\ hand = [w \in Writers |-> NoHand]
  /\ faults = 0

\* a second passes
Tick ==
  /\ clock < MaxClock
  /\ clock' = clock + 1
  /\ UNCHANGED <<file, last, logged, pc, snap, hand, faults>>

\* main() with the Log Hand page shown and nothing submitted
RenderLogHand ==
  /\ file' = init_data_file(file)
  /\ last' = Shown("log_hand_view", "ok")
  /\ UNCHANGED <<clock, logged, pc, snap, hand, faults>>

\* main() with the Log Hand form submitted
SubmitLogHand ==
  \E form \in InputForms :
    /\ Len(logged) < MaxHands
    /\ LET f == init_data_file(file)
           h == hand_data(form, clock)
           r == log_hand_page(f, h, save_hand(f, h))
       IN /\ file' = r.file
          /\ last' = r.shown
          /\ logged' = IF r.shown.err = "ok" THEN Append(logged, h) ELSE logged
    /\ UNCHANGED <<clock, pc, snap, hand, faults>>

\* main() with the Hand History page shown, the filters at any of their options
HandHistory ==
  /\ LET f == init_data_file(file)
         df == load_hands(f).df
     IN \E fp \in SUBSET (IF HasColumn(df, "position") THEN FilterOptions(df, "position") ELSE {}),
           fr \in SUBSET (IF HasColumn(df, "result") THEN FilterOptions(df, "result") ELSE {}) :
          LET r == hand_history_page(f, fp, fr)
          IN file' = r.file /\ last' = r.shown
  /\ UNCHANGED <<clock, logged, pc, snap, hand, faults>>

\* main() with the Stats page shown
StatsPage ==
  /\ LET r == stats_page(init_data_file(file))
     IN file' = r.file /\ last' = r.shown
  /\ UNCHANGED <<clock, logged, pc, snap, hand, faults>>

Next == Tick \/ RenderLogHand \/ SubmitLogHand \/ HandHistory \/ StatsPage

Spec == Init /\ [][Next]_vars

\* ---------------------------------------------------- I/O faults in save_hand
\* what a rewrite that fails part way leaves of the rows it was writing: the
\* rows before some row, and possibly the first cells of that row
TornPrefixes(rows) ==
  UNION {{SubSeq(rows, 1, k) \o (IF c = 0 THEN <<>> ELSE <<SubSeq(rows[k + 1], 1, c)>>) :
            c \in 0..(Len(rows[k + 1]) - 1)} : k \in 0..(Len(rows) - 1)}

\* save_hand with to_csv opening DATA_FILE before load_hands has read it
SaveOutcomesOpenFirst(f, h) ==
  {[err |-> "OSError(read)", file |-> FileOf(<<>>)], save_hand(f, h)}

\* every way save_hand can end when an I/O call may fail: load_hands raises and
\* the file is as it was; open(DATA_FILE, 'w') raises and the file is as it was;
\* the write raises after open has truncated the file, and the file holds a
\* prefix of the new content; or no call fails
SaveOutcomes(f, h) ==
  LET r == load_hands(f)
  IN {save_hand(f, h)}
       \cup (IF f.exists THEN {[err |-> "OSError(read)", file |-> f]} ELSE {})
       \cup (IF r.err = "ok"
             THEN {[err |-> "OSError(open)", file |-> f]}
                    \cup {[err |-> "OSError(write)", file |-> FileOf(t)] :
                            t \in TornPrefixes(NewContent(r.df, h))}
             ELSE {})

\* main() with the Log Hand form submitted, an I/O call of save_hand possibly
\* failing; MaxHands bounds the executions of save_hand, MaxFaults those that fail
SubmitLogHandFaulty ==
  \E form \in InputForms :
    /\ Len(logged) + faults < MaxHands
    /\ LET f == init_data_file(file)
           h == hand_data(form, clock)
       IN \E save \in SaveOutcomes(f, h) :
            LET r == log_hand_page(f, h, save)
                failed == r.shown.err \in {"OSError(read)", "OSError(open)", "OSError(write)"}
            IN /\ failed => faults < MaxFaults
               /\ faults' = IF failed THEN faults + 1 ELSE faults
               /\ file' = r.file
               /\ last' = r.shown
               /\ logged' = IF r.shown.err = "ok" THEN Append(logged, h) ELSE logged
    /\ UNCHANGED <<clock, pc, snap, hand>>

NextFault == RenderLogHand \/ SubmitLogHandFaulty \/ StatsPage

SpecFault == Init /\ [][NextFault]_vars

\* ------------------------------------------------- load_hands on any file
\* rows a file edited outside the program can hold: two records, a row cut
\* short, a row with a field too many, a blank line
ExternalRows ==
  {<<"2024-01-01 10:00:00", "BTN", "AhKd", "Raise", "Won", "25.5", "">>,
   <<"2024-01-01 10:00:01", "BB", "07", "Fold", "Lost", "-1.0", "blind">>,
   <<"2024-01-01 10:00:02", "SB">>,
   <<"2024-01-01 10:00:03", "CO", "QQ", "Call", "Lost", "-1.0", "river", "bluff">>,
   <<"">>}

RECURSIVE SeqsUpTo(_, _)
SeqsUpTo(S, n) ==
  IF n = 0 THEN {<<>>}
  ELSE LET shorter == SeqsUpTo(S, n - 1)
       IN shorter \cup {Append(q, x) : q \in shorter, x \in S}

\* the files: none, or up to MaxExtRows such rows with or without the header row
ExternalFiles ==
  {NoFile} \cup {FileOf(<<DATA_COLUMNS>> \o q) : q \in SeqsUpTo(ExternalRows, MaxExtRows)}
           \cup {FileOf(q) : q \in SeqsUpTo(ExternalRows, MaxExtRows)}

InitLoad ==
  /\ file \in ExternalFiles
  /\ clock = 0
  /\ last = Shown("start", "ok")
  /\ logged = <<>>
  /\ pc = [w \in Writers |-> "idle"]
  /\ snap = [w \in Writers |-> <<>>]
  /\ hand = [w \in Writers |-> NoHand]
  /\ faults = 0

\* df = load_hands(), the first statement of hand_history_page and of stats_page
LoadHands ==
  /\ LET r == load_hands(file)
     IN last' = [Shown("load_hands", r.err) EXCEPT !.df = r.df]
  /\ UNCHANGED <<file, clock, logged, pc, snap, hand, faults>>

NextLoad == LoadHands \/ RenderLogHand

SpecLoad == InitLoad /\ [][NextLoad]_vars

\* ------------------------------------------------------ two sessions at once
\* to_csv with DATA_FILE opened in mode 'a'
WriteAppend(rows, content) == rows \o <<content[Len(content)]>>

\* the rows of the file after `content` is written from its start: what lay
\* beyond the end of `content` stays
WriteAt(rows, content) == content \o SubSeq(rows, Len(content) + 1, Len(rows))

InFlight == {w \in Writers : pc[w] # "idle"}

\* a session submits the form: main() up to the call of save_hand
WStart(w) ==
  /\ pc[w] = "idle"
  /\ Len(logged) + Cardinality(InFlight) < MaxHands
  /\ \E form \in InputForms :
       LET h == hand_data(form, clock)
       IN /\ file' = init_data_file(file)
          /\ IF h.hole_cards = ""
             THEN /\ last' = [Shown("log_hand", "ValidationError") EXCEPT !.hand = h]
                  /\ UNCHANGED <<pc, hand>>
             ELSE /\ pc' = [pc EXCEPT ![w] = "load"]
                  /\ hand' = [hand EXCEPT ![w] = h]
                  /\ UNCHANGED last
  /\ UNCHANGED <<clock, logged, snap, faults>>

\* save_hand: df = load_hands(), and the new content built from it
WLoad(w) ==
  /\ pc[w] = "load"
  /\ LET r == load_hands(file)
     IN IF r.err # "ok"
        THEN /\ pc' = [pc EXCEPT ![w] = "idle"]
             /\ last' = [Shown("log_hand", r.err) EXCEPT !.hand = hand[w]]
             /\ UNCHANGED snap
        ELSE /\ pc' = [pc EXCEPT ![w] = "open"]
             /\ snap' = [snap EXCEPT ![w] = NewContent(r.df, hand[w])]
             /\ UNCHANGED last
  /\ UNCHANGED <<file, clock, logged, hand, faults>>

\* save_hand: to_csv opens DATA_FILE for writing, which truncates it
WOpen(w) ==
  /\ pc[w] = "open"
  /\ file' = FileOf(<<>>)
  /\ pc' = [pc EXCEPT ![w] = "write"]
  /\ UNCHANGED <<clock, last, logged, snap, hand, faults>>

\* save_hand: to_csv writes the content and closes the file
WWrite(w) ==
  /\ pc[w] = "write"
  /\ file' = FileOf(WriteAt(file.rows, snap[w]))
  /\ pc' = [pc EXCEPT ![w] = "idle"]
  /\ logged' = Append(logged, hand[w])
  /\ last' = [Shown("log_hand", "ok") EXCEPT !.hand = hand[w]]
  /\ UNCHANGED <<clock, snap, hand, faults>>

NextConc == Tick \/ \E w \in Writers : WStart(w) \/ WLoad(w) \/ WOpen(w) \/ WWrite(w)

SpecConc == Init /\ [][NextConc]_vars

\* ------------------------------------------------------------------ claims
IsPrefix(s, t) == Len(s) <= Len(t) /\ SubSeq(t, 1, Len(s)) = s

HeaderOnly == FileOf(<<DATA_COLUMNS>>)

\* the record a logged hand is: its seven values as they were given to save_hand
RecordOf(h) ==
  <<Str(h.timestamp), Str(h.position), Str(h.hole_cards), Str(h.action),
    Str(h.result), FloatV(h.profit_loss), Str(h.notes)>>

\* C1: after the appends of `logged` to an initialized store, load_hands returns
\* exactly those records, in order, every one of the seven values unchanged.
C1_RoundTrip ==
  Len(logged) >= 1 =>
    load_hands(file) =
      [err |-> "ok", df |-> Frame(DATA_COLUMNS, [i \in DOMAIN logged |-> RecordOf(logged[i])])]

\* the text row to_csv writes for a hand as it was given to save_hand
RowText(h) ==
  <<h.timestamp, h.position, h.hole_cards, h.action, h.result, FmtFloat(h.profit_loss), h.notes>>

\* C2 (as claimed): every execution of save_hand, one that fails with an I/O
\* error at any step included, ends with the file holding the previous records
\* and the new one, or exactly the previous records.
C2_AllOrNothing ==
  [][(last'.op = "log_hand" /\ last'.hand.hole_cards # "") =>
       LET f == init_data_file(file)
       IN \/ /\ last'.err = "ok"
             /\ file'.exists
             /\ file'.rows = Append(f.rows, RowText(last'.hand))
          \/ /\ last'.err # "ok"
             /\ file' = f]_vars

\* t is what is left of rows when writing them stopped part way
IsTornFrom(t, rows) ==
  /\ t # rows
  /\ Len(t) <= Len(rows)
  /\ \A i \in DOMAIN t : IF i < Len(t) THEN t[i] = rows[i] ELSE IsPrefix(t[i], rows[i])

\* C2 (amended): save_hand ends with the file rewritten in full, its last row
\* the new record and its rows one more than were loaded; or, when load_hands or
\* the opening of the file fails, with the file exactly as it was; or, when the
\* write fails, with the file cut to a proper prefix of the new content.
C2_RewriteOrTruncate ==
  [][(last'.op = "log_hand" /\ last'.hand.hole_cards # "") =>
       LET f == init_data_file(file)
           r == load_hands(f)
       IN \/ /\ last'.err = "ok"
             /\ r.err = "ok"
             /\ file' = FileOf(NewContent(r.df, last'.hand))
             /\ Len(file'.rows) = Len(r.df.rows) + 2
             /\ file'.rows[Len(file'.rows)] = RowText(last'.hand)
             /\ logged' = Append(logged, last'.hand)
          \/ /\ last'.err \in {"OSError(read)", "OSError(open)", "EmptyDataError", "ParserError"}
             /\ file' = f
             /\ logged' = logged
          \/ /\ last'.err = "OSError(write)"
             /\ r.err = "ok"
             /\ file'.exists
             /\ IsTornFrom(file'.rows, NewContent(r.df, last'.hand))
             /\ logged' = logged]_vars

\* a write failed after an earlier append had succeeded, and the record of that
\* append is no longer in the file
C2_Witness ==
  /\ last.op = "log_hand" /\ last.err = "OSError(write)"
  /\ Len(logged) >= 1
  /\ Len(DataRows(file)) < Len(logged)

\* C5 (as claimed): load_hands fails, and returns no records, whenever the file
\* lacks the header row or has a row with more or fewer than seven fields.
Malformed(f) ==
  /\ f.exists
  /\ \/ f.rows = <<>>
     \/ f.rows[1] # DATA_COLUMNS
     \/ \E i \in 2..Len(f.rows) : Len(f.rows[i]) # Len(DATA_COLUMNS)

C5_ParseErrorOnMalformed ==
  (last.op = "load_hands" /\ Malformed(file)) => last.err # "ok"

\* C5 (amended): load_hands fails with a ParserError exactly when a row after the
\* first data row has more fields than the wider of the header and the first data
\* row, and with an EmptyDataError exactly when the file has no line that is not
\* blank; otherwise it returns one record per data row, each with as many values
\* as the first row has names, the fields a short row lacks being NaN.
C5_LoadHandsErrors ==
  (last.op = "load_hands" /\ file.exists) =>
    LET rows == SelectSeq(file.rows, NotBlankLine)
        width == IF Len(rows) = 1 THEN Len(rows[1]) ELSE Max(Len(rows[1]), Len(rows[2]))
    IN /\ last.err \in {"ok", "EmptyDataError", "ParserError"}
       /\ last.err = "EmptyDataError" <=> rows = <<>>
       /\ last.err = "ParserError" <=>
            (rows # <<>> /\ \E i \in 3..Len(rows) : Len(rows[i]) > width)
       /\ last.err = "ok" =>
            /\ Len(last.df.rows) = Len(rows) - 1
            /\ Len(last.df.columns) = Len(rows[1])
            /\ \A i \in DOMAIN last.df.rows :
                 /\ Len(last.df.rows[i]) = Len(rows[1])
                 /\ \A j \in DOMAIN last.df.rows[i] :
                      (width - Len(rows[1])) + j > Len(rows[i + 1]) => last.df.rows[i][j] = NaN

\* a file with the header and a row of two fields was loaded without an error
C5_Witness ==
  /\ last.op = "load_hands" /\ last.err = "ok"
  /\ file.exists /\ file.rows # <<>> /\ file.rows[1] = DATA_COLUMNS
  /\ \E i \in 2..Len(file.rows) : Len(file.rows[i]) = 2
  /\ \E i \in DOMAIN last.df.rows : last.df.rows[i][7] = NaN /\ last.df.rows[i][2] = Str("SB")

\* C7: two sessions can both read the file before either rewrites it; whichever
\* writes last leaves the content it built from its own read, so a write that
\* completes puts at the start of the file exactly the rows that session built,
\* ending with its own record, whatever was written since it read.
C7_LastWriterWins ==
  [][\A w \in Writers :
       (pc[w] = "write" /\ pc'[w] = "idle") =>
         /\ IsPrefix(snap[w], file'.rows)
         /\ snap[w][Len(snap[w])] = RowText(hand[w])
         /\ logged' = Append(logged, hand[w])]_vars

\* both sessions have completed an append and the file holds one record
C7_LostUpdate ==
  /\ \A w \in Writers : pc[w] = "idle" /\ hand[w] # NoHand
  /\ Len(logged) = 2
  /\ \A w \in Writers : \E i \in DOMAIN logged : logged[i] = hand[w]
  /\ Len(DataRows(file)) = 1
  /\ DataRows(file)[1] = RowText(logged[2])

\* C3: initialize creates a missing file with the header and no data rows, leaves
\* an existing file, whatever its rows, identical, and a second call changes nothing.
C3_InitializeIdempotent ==
  [][last'.op = "log_hand_view" =>
       /\ (file.exists => file' = file)
       /\ (~file.exists => file' = HeaderOnly)
       /\ init_data_file(file') = file']_vars

C3_Witness == last.op = "log_hand_view" /\ Len(DataRows(file)) >= 2

\* C4: a submission with empty hole cards is rejected with a validation error and
\* appends nothing, and every stored record has non-empty hole cards.
C4_EmptyHoleCardsRejected ==
  [][/\ (last'.op = "log_hand" /\ last'.hand.hole_cards = "" =>
           /\ last'.err = "ValidationError"
           /\ file' = init_data_file(file)
           /\ logged' = logged)
     /\ \A i \in DOMAIN DataRows(file') : DataRows(file')[i][3] # ""]_vars

\* C6: the store is append-only: the data rows of the file before any operation
\* are a prefix of its data rows after it.
C6_AppendOnly == [][IsPrefix(DataRows(file), DataRows(file'))]_vars

\* C8: the filtered rows are exactly the rows whose position is among the chosen
\* positions and whose result is among the chosen results, in their original
\* order; an empty choice on either side gives no rows, and choosing every value
\* present on both sides gives all rows.
C8_FilterBy ==
  (last.op = "hand_history" /\ last.err = "ok" /\ ~IsEmptyFrame(last.df)) =>
    LET rows == last.df.rows
        pos == ColIndex(last.df, "position")
        res == ColIndex(last.df, "result")
        keep == {i \in DOMAIN rows : rows[i][pos] \in last.fpos /\ rows[i][res] \in last.fres}
        n == Len(last.filtered)
    IN /\ n = Cardinality(keep)
       /\ \E at \in [1..n -> keep] :
            /\ \A a, b \in 1..n : a < b => at[a] < at[b]
            /\ \A a \in 1..n : last.filtered[a] = rows[at[a]]
       /\ (last.fpos = {} \/ last.fres = {} => last.filtered = <<>>)
       /\ (/\ last.fpos = {rows[i][pos] : i \in DOMAIN rows}
           /\ last.fres = {rows[i][res] : i \in DOMAIN rows}) => last.filtered = rows

C8_Witness ==
  /\ last.op = "hand_history" /\ last.err = "ok"
  /\ last.filtered # <<>> /\ Len(last.filtered) < Len(last.df.rows)

IsDescending(entries) ==
  \A a, b \in DOMAIN entries : a < b => entries[a].val >= entries[b].val

RECURSIVE SumOver(_, _)
SumOver(s, I) ==
  IF I = {} THEN 0 ELSE LET i == CHOOSE x \in I : TRUE IN s[i] + SumOver(s, I \ {i})

C10_RenderKeepsFile ==
  [][last'.op \in {"hand_history", "stats"} =>
       /\ DataRows(file') = DataRows(file)
       /\ (file.exists => file' = file)
       /\ (~file.exists => file' = HeaderOnly)]_vars

C10_Witness ==
  /\ last.op = "hand_history" /\ last.err = "ok"
  /\ Len(DataRows(file)) >= 2
  /\ last.csv # <<>> /\ last.csv # file.rows

====
